---- MODULE Spec2Model ----
(***************************************************************************)
(* Order-fulfilment core of the okuafopa backend: checkout (createOrder)   *)
(* inside a MongoDB transaction, the two-level status hierarchy, and the   *)
(* status mutations on a persisted order (Mongoose documents, saved by     *)
(* modified path, with the Order model's pre-save hook).                   *)
(***************************************************************************)
EXTENDS Integers, Sequences, FiniteSets, TLC

\* ---------------------------------------------------------------- bounds
\* Largest initial quantity of a listing.
MaxStock == 2
\* Initial quantity of the second listing.
OtherStock == 1
\* Largest qty a checkout item asks for.
MaxQty == 2
\* How far the clock runs.
MaxClock == 1
\* Longest status list handed to a derivation function.
MaxLen == 3
\* How many times a listing is written.
MaxWrites == 2

\* --------------------------------------------------------------- universe
ListingIds == {"L1", "L2"}
\* A well-formed product id that no listing has.
MissingId == "L0"
ProductIds == ListingIds \cup {MissingId}
Farmers == {"F1", "F2"}
\* A checkout call; the caller is the buyer req.user.sub, and the order the
\* call creates carries the call's name as its _id.
Clients == {"c1", "c2"}
OrderIds == Clients
\* A status-update call (PATCH .../status).
Updaters == {"u1", "u2"}
\* ProductListing.farmer and ProductListing.price of the stored listings.
ListingFarmer == [l \in ListingIds |-> IF l = "L1" THEN "F1" ELSE "F2"]
ListingPrice == [l \in ListingIds |-> IF l = "L1" THEN 10 ELSE 7]

Unset == "unset"
NoNum == 0 - 1

\* ------------------------------------------------------------- sequences
RECURSIVE SumSeq(_)
SumSeq(s) == IF s = <<>> THEN 0 ELSE Head(s) + SumSeq(Tail(s))

Every(s, v) == \A i \in 1..Len(s) : s[i] = v
Includes(s, v) == \E i \in 1..Len(s) : s[i] = v
MapSeq(s, Op(_)) == [i \in 1..Len(s) |-> Op(s[i])]

\* ------------------------------------------------------- status derivation
ALLOWED_ITEM_STATUSES ==
  {"pending", "accepted", "rejected", "ready", "in_transit", "delivered", "cancelled"}
SubOrderStatusEnum ==
  {"pending", "accepted", "rejected", "ready", "in_transit", "delivered",
   "cancelled", "in_progress", "partially_delivered"}
OrderStatusEnum ==
  {"pending", "in_progress", "partially_delivered", "delivered", "cancelled"}

\* x || 'pending'
OrPending(x) == IF x = Unset \/ x = "" THEN "pending" ELSE x
ItemStatusOf(it) == OrPending(it.itemStatus)
SubStatusOf(so) == OrPending(so.status)

\* Faulty variant of deriveSubOrderStatus: the delivered-and-other branch
\* tested before the in_transit/ready/accepted branch.
deriveSubOrderStatusSwapped(items) ==
  LET statuses == MapSeq(items, ItemStatusOf) IN
  IF Len(items) = 0 THEN "pending"
  ELSE IF Every(statuses, "delivered") THEN "delivered"
  ELSE IF Every(statuses, "cancelled") THEN "cancelled"
  ELSE IF Includes(statuses, "delivered")
          /\ \E i \in 1..Len(statuses) : statuses[i] # "delivered"
       THEN "partially_delivered"
  ELSE IF Includes(statuses, "in_transit") \/ Includes(statuses, "ready")
          \/ Includes(statuses, "accepted") THEN "in_progress"
  ELSE IF Every(statuses, "pending") THEN "pending"
  ELSE "in_progress"

deriveSubOrderStatus(items) ==
  LET statuses == MapSeq(items, ItemStatusOf) IN
  IF Len(items) = 0 THEN "pending"
  ELSE IF Every(statuses, "delivered") THEN "delivered"
  ELSE IF Every(statuses, "cancelled") THEN "cancelled"
  ELSE IF Includes(statuses, "in_transit") \/ Includes(statuses, "ready")
          \/ Includes(statuses, "accepted") THEN "in_progress"
  ELSE IF Includes(statuses, "delivered")
          /\ \E i \in 1..Len(statuses) : statuses[i] # "delivered"
       THEN "partially_delivered"
  ELSE IF Every(statuses, "pending") THEN "pending"
  ELSE "in_progress"

\* Faulty variant of deriveOrderStatus: the first sub-order alone decides
\* between delivered and partially_delivered.
deriveOrderStatusByFirst(subOrders) ==
  LET statuses == MapSeq(subOrders, SubStatusOf) IN
  IF Len(subOrders) = 0 THEN "pending"
  ELSE IF Every(statuses, "delivered") THEN "delivered"
  ELSE IF Every(statuses, "cancelled") THEN "cancelled"
  ELSE IF statuses[1] = "delivered" THEN "partially_delivered"
  ELSE IF Every(statuses, "pending") THEN "pending"
  ELSE "in_progress"

\* Faulty variant of deriveOrderStatus: the delivered-and-other branch left
\* out.
deriveOrderStatusNoPartial(subOrders) ==
  LET statuses == MapSeq(subOrders, SubStatusOf) IN
  IF Len(subOrders) = 0 THEN "pending"
  ELSE IF Every(statuses, "delivered") THEN "delivered"
  ELSE IF Every(statuses, "cancelled") THEN "cancelled"
  ELSE IF Every(statuses, "pending") THEN "pending"
  ELSE "in_progress"

deriveOrderStatus(subOrders) ==
  LET statuses == MapSeq(subOrders, SubStatusOf) IN
  IF Len(subOrders) = 0 THEN "pending"
  ELSE IF Every(statuses, "delivered") THEN "delivered"
  ELSE IF Every(statuses, "cancelled") THEN "cancelled"
  ELSE IF Includes(statuses, "delivered")
          /\ \E i \in 1..Len(statuses) : statuses[i] # "delivered"
       THEN "partially_delivered"
  ELSE IF Every(statuses, "pending") THEN "pending"
  ELSE "in_progress"

\* OrderSchema.methods.updateDerivedStatus: the status the pre-save hook
\* assigns, from the raw sub-order statuses.
RawStatus(so) == so.status
updateDerivedStatus(subOrders) ==
  LET subStatuses == MapSeq(subOrders, RawStatus) IN
  IF Every(subStatuses, "delivered") THEN "delivered"
  ELSE IF \E i \in 1..Len(subStatuses) :
            subStatuses[i] \in {"ready", "in_transit", "delivered"}
       THEN "partially_delivered"
  ELSE IF Every(subStatuses, "cancelled") THEN "cancelled"
  ELSE IF \E i \in 1..Len(subStatuses) :
            subStatuses[i] \in {"accepted", "ready", "in_transit"}
       THEN "in_progress"
  ELSE "pending"

\* OrderSchema.pre('save'): runs on every save and on Order.create.
PreSave(doc) == [doc EXCEPT !.status = updateDerivedStatus(doc.subOrders)]

\* ------------------------------------------------------------------ state
VARIABLES
  listings,   \* ProductListing collection (committed): id -> [quantity, price, farmer, ver]
  orders,     \* Order collection (committed): id -> document or NoOrder
  stock0,     \* the quantity every listing started with (never changes)
  cpc,        \* createOrder call: where the handler stands
  cwork,      \* createOrder call: `value.subOrders`, mutated in place by the loop
  cso,        \* createOrder call: index of the sub-order the loop is at
  cit,        \* createOrder call: index of the item the loop is at
  csubtotal,  \* createOrder call: `subtotal` of the current sub-order
  cgrand,     \* createOrder call: `grandTotal`
  ctxn,       \* createOrder call: its session's transaction
  cdoc,       \* createOrder call: the document Order.create wrote in the transaction
  cresp,      \* createOrder call: the response sent
  upc,        \* status-update call: where the handler stands
  ucall,      \* status-update call: the request (params, body, req.user)
  uorig,      \* status-update call: the document as Order.findById loaded it
  udoc,       \* status-update call: the loaded document as the handler changed it
  uresp,      \* status-update call: the response sent
  now,        \* the clock timestamps are read from
  io,         \* services/socket: whether init(server) has set `io`
  smtpDown,   \* the recipients (buyer, farmer) to whom sending mail throws
  rcall,      \* the last read or delete request served
  rresp,      \* the response it got
  dcall,      \* a call of a derivation function: the status list, and a reordering of it
  dres,       \* what the function returned for each
  events,     \* the socket events emitted so far, in order
  rprev       \* the request and response held when the last one-step request was served

cvars == <<cpc, cwork, cso, cit, csubtotal, cgrand, ctxn, cdoc, cresp>>
uvars == <<upc, ucall, uorig, udoc, uresp>>
dbvars == <<listings, orders, stock0>>
\* The environment, and the one-step handlers' request and response.
evars == <<now, io, smtpDown>>
rvars == <<rcall, rresp, rprev>>
\* A call of a pure function and its result.
fvars == <<dcall, dres>>

\* The user a checkout call is authenticated as (req.user.sub).
ClientUser == [c \in Clients |-> IF c = "c1" THEN "B1" ELSE "B2"]

NoOrder == [exists |-> FALSE]
NoCall == [kind |-> "none"]
NoWrite == 0 - 1
NoSnap == [l \in ListingIds |-> [quantity |-> 0, price |-> 0, farmer |-> Unset, ver |-> 0]]
NoTxn == [active |-> FALSE, hasSnap |-> FALSE, snap |-> NoSnap,
          writes |-> [l \in ListingIds |-> NoWrite]]
\* A response: the HTTP status, which outcome it is and, for a checkout that
\* stopped at an item, the stock figures it reports and the place
\* <<sub-order, item>> of that item in the body.
NoPlace == <<0, 0>>
NoResp == [code |-> 0, kind |-> "none", available |-> NoNum, requested |-> NoNum,
           at |-> NoPlace]
Resp(code, kind) == [NoResp EXCEPT !.code = code, !.kind = kind]
RespAt(code, kind, so, it) == [Resp(code, kind) EXCEPT !.at = <<so, it>>]
\* A one-step handler's request (which handler, the id asked for, req.user)
\* and its response: the HTTP status and the documents in the body.
NoRead == [op |-> "none"]
NoDerive == [fn |-> "none"]
NoResult == <<>>
NoReply == [code |-> 0, body |-> <<>>]
Reply(code, body) == [code |-> code, body |-> body]
\* No request was being held.
NoPrev == [call |-> NoRead, reply |-> NoReply]

\* ------------------------------------------------------- request bodies
ItemChoices == {[product |-> pr, qty |-> q] : pr \in ProductIds, q \in 1..MaxQty}
SubReq(f, items) == [farmer |-> f, items |-> items]
\* Bodies of POST /orders: up to two items, in one sub-order or in two, and
\* two bodies Joi rejects.
CheckoutBodies ==
  {<<>>, <<SubReq("F1", <<>>)>>}
  \cup {<<SubReq("F1", <<a>>)>> : a \in ItemChoices}
  \cup {<<SubReq("F1", <<a, b>>)>> : a \in ItemChoices, b \in ItemChoices}
  \cup {<<SubReq("F1", <<a>>), SubReq("F2", <<b>>)>> : a \in ItemChoices, b \in ItemChoices}

\* orderSchema.validate: subOrders min(1), items min(1), qty integer min(1).
ValidBody(body) ==
  /\ Len(body) >= 1
  /\ \A i \in 1..Len(body) :
       /\ Len(body[i].items) >= 1
       /\ \A j \in 1..Len(body[i].items) : body[i].items[j].qty >= 1

\* `value.subOrders` right after validation: nothing priced or derived yet.
WorkItem(it) == [product |-> it.product, qty |-> it.qty,
                 priceAtOrder |-> NoNum, itemStatus |-> Unset]
WorkSub(so) == [farmer |-> so.farmer, items |-> MapSeq(so.items, WorkItem),
                subtotal |-> NoNum, status |-> Unset]
WorkBody(body) == MapSeq(body, WorkSub)

\* ---------------------------------------------------- MongoDB transaction
\* Faulty variant of TxnRead: a read that misses the transaction's own writes.
TxnReadSnapshotOnly(p, pr) ==
  IF pr \notin ListingIds THEN NoOrder
  ELSE [exists |-> TRUE,
        quantity |-> (IF ctxn[p].hasSnap THEN ctxn[p].snap ELSE listings)[pr].quantity,
        price |-> (IF ctxn[p].hasSnap THEN ctxn[p].snap ELSE listings)[pr].price]

\* What a read in p's transaction sees: the snapshot taken at the
\* transaction's first operation, overlaid with its own writes.
SnapOf(p) == IF ctxn[p].hasSnap THEN ctxn[p].snap ELSE listings

TxnRead(p, pr) ==
  IF pr \notin ListingIds THEN NoOrder
  ELSE LET base == SnapOf(p)[pr] IN
       [exists |-> TRUE,
        quantity |-> IF ctxn[p].writes[pr] # NoWrite THEN ctxn[p].writes[pr]
                     ELSE base.quantity,
        price |-> base.price]

\* Faulty variant of WriteConflict: writes that are never checked against
\* other transactions (a store without write-conflict detection).
NoWriteConflict(p, l) == FALSE

\* A write in p's transaction throws WriteConflict when another open
\* transaction has written the document, or a transaction that committed
\* after p's snapshot has.
WriteConflict(p, l) ==
  \/ \E q \in Clients \ {p} : ctxn[q].active /\ ctxn[q].writes[l] # NoWrite
  \/ listings[l].ver # SnapOf(p)[l].ver

\* Faulty variant of ListingsAfterAbort: decrements that survive the abort
\* (reservations made outside the transaction).
ListingsAfterAbortKeepsWrites(p) ==
  [l \in ListingIds |->
     IF ctxn[p].writes[l] # NoWrite
     THEN [listings[l] EXCEPT !.quantity = ctxn[p].writes[l], !.ver = @ + 1]
     ELSE listings[l]]

\* session.abortTransaction(): the collection as the abort leaves it.
ListingsAfterAbort(p) == listings

\* session.commitTransaction(): the transaction's writes become the
\* committed documents.
ListingsAfterCommit(p) ==
  [l \in ListingIds |->
     IF ctxn[p].writes[l] # NoWrite
     THEN [listings[l] EXCEPT !.quantity = ctxn[p].writes[l], !.ver = @ + 1]
     ELSE listings[l]]

\* ------------------------------------------------------------ Order model
NoId == 0
\* OrderItemSchema is declared with { _id: false }, SubOrderSchema with { _id: true }.
OrderItemSchemaHasId == FALSE
CastItem(it, j) == [id |-> IF OrderItemSchemaHasId THEN j ELSE NoId,
                    product |-> it.product, qty |-> it.qty,
                    priceAtOrder |-> it.priceAtOrder,
                    itemStatus |-> OrPending(it.itemStatus)]
CastSub(so, i) == [id |-> i, farmer |-> so.farmer,
                   items |-> [j \in 1..Len(so.items) |-> CastItem(so.items[j], j)],
                   subtotal |-> so.subtotal, status |-> OrPending(so.status)]
\* req.body.billing, the buyer's billing details as sent with the checkout.
Billing(p) == [name |-> ClientUser[p]]
\* orderData of createOrder, cast by the schema ({ timestamps: true } adds
\* createdAt).
OrderData(p) ==
  [exists |-> TRUE,
   id |-> p,
   buyer |-> ClientUser[p],
   billing |-> Billing(p),
   createdAt |-> now,
   subOrders |-> [i \in 1..Len(cwork[p]) |-> CastSub(cwork[p][i], i)],
   grandTotal |-> cgrand[p],
   lastUpdatedBy |-> ClientUser[p],
   status |-> deriveOrderStatus(cwork[p])]

\* ------------------------------------------------------------ createOrder
\* Faulty variant of LineTotal: the unit price counted once whatever the qty.
LineTotalIgnoresQty(unitPrice, qty) == unitPrice

\* unitPrice * qty, what one item adds to its sub-order's subtotal.
LineTotal(unitPrice, qty) == unitPrice * qty

CurSub(p) == cwork[p][cso[p]]
CurItem(p) == CurSub(p).items[cit[p]]

\* The call ends with a response; its transaction, if any, is aborted.
\* The handler's locals are gone once it has returned.
DropLocals(p) ==
  /\ cwork' = [cwork EXCEPT ![p] = <<>>]
  /\ cso' = [cso EXCEPT ![p] = 1]
  /\ cit' = [cit EXCEPT ![p] = 1]
  /\ csubtotal' = [csubtotal EXCEPT ![p] = 0]
  /\ cgrand' = [cgrand EXCEPT ![p] = 0]
  /\ cdoc' = [cdoc EXCEPT ![p] = NoOrder]

CheckoutFail(p, resp) ==
  /\ cpc' = [cpc EXCEPT ![p] = "done"]
  /\ cresp' = [cresp EXCEPT ![p] = resp]
  /\ ctxn' = [ctxn EXCEPT ![p] = NoTxn]
  /\ listings' = ListingsAfterAbort(p)
  /\ DropLocals(p)
  /\ UNCHANGED <<orders, stock0, evars, events, rvars, fvars, uvars>>

\* startSession, Joi validation, startTransaction.
CheckoutStart(p, body) ==
  /\ cpc[p] = "idle"
  /\ IF ~ValidBody(body)
     THEN /\ cpc' = [cpc EXCEPT ![p] = "done"]
          /\ cresp' = [cresp EXCEPT ![p] = Resp(400, "ValidationError")]
          /\ UNCHANGED <<cwork, ctxn>>
     ELSE /\ cpc' = [cpc EXCEPT ![p] = "read"]
          /\ cwork' = [cwork EXCEPT ![p] = WorkBody(body)]
          /\ ctxn' = [ctxn EXCEPT ![p] = [NoTxn EXCEPT !.active = TRUE]]
          /\ UNCHANGED cresp
  /\ UNCHANGED <<dbvars, evars, events, rvars, fvars, uvars, cso, cit, csubtotal, cgrand, cdoc>>

\* Top of the item loop: ProductListing.findById in the session, the
\* not-found and stock checks, pricing of the item.
CheckoutRead(p) ==
  /\ cpc[p] = "read"
  /\ LET it == CurItem(p)
         prod == TxnRead(p, it.product)
     IN
     IF Len(CurSub(p).items) = 0
     THEN CheckoutFail(p, Resp(400, "ValidationError"))
     ELSE IF ~prod.exists
     THEN CheckoutFail(p, RespAt(400, "NotFound", cso[p], cit[p]))
     ELSE IF it.qty > prod.quantity
     THEN CheckoutFail(p, [RespAt(400, "InsufficientStock", cso[p], cit[p])
                             EXCEPT !.available = prod.quantity, !.requested = it.qty])
     ELSE /\ cpc' = [cpc EXCEPT ![p] = "reserve"]
          /\ csubtotal' = [csubtotal EXCEPT ![p] = @ + LineTotal(prod.price, it.qty)]
          /\ cwork' = [cwork EXCEPT ![p][cso[p]].items[cit[p]] =
                         [@ EXCEPT !.priceAtOrder = prod.price,
                                   !.itemStatus = OrPending(it.itemStatus)]]
          /\ ctxn' = [ctxn EXCEPT ![p] = [@ EXCEPT !.hasSnap = TRUE, !.snap = SnapOf(p)]]
          /\ UNCHANGED <<dbvars, evars, events, rvars, fvars, uvars, cso, cit, cgrand, cdoc, cresp>>

\* ProductListing.findOneAndUpdate({_id, quantity >= qty}, {$inc: -qty}) in
\* the session, then the end of the item loop / sub-order loop.
CheckoutReserve(p) ==
  /\ cpc[p] = "reserve"
  /\ LET it == CurItem(p)
         l == it.product
         seen == TxnRead(p, l)
         lastItem == cit[p] = Len(CurSub(p).items)
         lastSub == cso[p] = Len(cwork[p])
     IN
     IF WriteConflict(p, l)
     THEN CheckoutFail(p, RespAt(500, "Internal", cso[p], cit[p]))
     ELSE IF ~(seen.quantity >= it.qty)
     THEN CheckoutFail(p, RespAt(409, "Conflict", cso[p], cit[p]))
     ELSE /\ ctxn' = [ctxn EXCEPT ![p].writes[l] = seen.quantity - it.qty]
          /\ IF ~lastItem
             THEN /\ cit' = [cit EXCEPT ![p] = @ + 1]
                  /\ cpc' = [cpc EXCEPT ![p] = "read"]
                  /\ UNCHANGED <<cwork, cso, csubtotal, cgrand>>
             ELSE /\ cwork' = [cwork EXCEPT ![p][cso[p]] =
                                 [@ EXCEPT !.subtotal = csubtotal[p],
                                           !.status = deriveSubOrderStatus(CurSub(p).items)]]
                  /\ cgrand' = [cgrand EXCEPT ![p] = @ + csubtotal[p]]
                  /\ csubtotal' = [csubtotal EXCEPT ![p] = 0]
                  /\ cit' = [cit EXCEPT ![p] = 1]
                  /\ cso' = [cso EXCEPT ![p] = IF lastSub THEN @ ELSE @ + 1]
                  /\ cpc' = [cpc EXCEPT ![p] = IF lastSub THEN "create" ELSE "read"]
          /\ UNCHANGED <<dbvars, evars, events, rvars, fvars, uvars, cdoc, cresp>>

\* Order.create([orderData], { session }): cast, validate, pre-save hook,
\* insert in the transaction; `fails` is a persistence error thrown by it.
CheckoutCreate(p, fails) ==
  /\ cpc[p] = "create"
  /\ IF fails
     THEN CheckoutFail(p, Resp(500, "Internal"))
     ELSE /\ cdoc' = [cdoc EXCEPT ![p] = PreSave(OrderData(p))]
          /\ cpc' = [cpc EXCEPT ![p] = "commit"]
          /\ UNCHANGED <<dbvars, evars, events, rvars, fvars, uvars, cwork, cso, cit, csubtotal, cgrand, ctxn, cresp>>

\* session.commitTransaction(); session.endSession().
CheckoutCommit(p) ==
  /\ cpc[p] = "commit"
  /\ listings' = ListingsAfterCommit(p)
  /\ orders' = [orders EXCEPT ![p] = cdoc[p]]
  /\ ctxn' = [ctxn EXCEPT ![p] = NoTxn]
  /\ cpc' = [cpc EXCEPT ![p] = "respond"]
  /\ UNCHANGED <<stock0, evars, events, rvars, fvars, uvars, cwork, cso, cit, csubtotal, cgrand, cdoc, cresp>>

\* ---------------------------------------------------------- notifications
MailRecipients == {"buyer", "farmer"}
\* notificationService.sendOrderNotification throws when the transport
\* fails for the recipient.
SendThrows(recipient) == recipient \in smtpDown
\* socketService.getIo() throws until init(server) has run.
GetIoThrows == ~io

\* Faulty variant of Caught: the call made outside any try/catch, so that
\* the handler goes on only if the call did not throw.
Uncaught(threw) == ~threw

\* try { await ...; } catch (e) { console.error(...); }: whether the handler
\* goes on after the guarded call.
Caught(threw) == TRUE

\* The notifications after a checkout: the buyer's mail, the sellers' mails,
\* the socket events.
CreatedNotified ==
  /\ Caught(SendThrows("buyer"))
  /\ Caught(SendThrows("farmer"))
  /\ Caught(GetIoThrows)
\* The notifications after a status update: the buyer's mail, the socket
\* events.
UpdateNotified ==
  /\ Caught(SendThrows("buyer"))
  /\ Caught(GetIoThrows)

\* An emitted event: io.to(room).emit(name, payload), the payload by the
\* order and sub-order it is about.
Event(name, room, orderId, subOrderId) ==
  [name |-> name, room |-> room, order |-> orderId, subOrder |-> subOrderId]
BuyerRoom(order) == <<"buyer", order.buyer>>
FarmerRoom(subOrder) == <<"farmer", subOrder.farmer>>

\* Faulty variant of CreatedEvents: the sellers' events left out.
CreatedEventsBuyerOnly(populated) ==
  IF GetIoThrows \/ ~populated.exists THEN <<>>
  ELSE <<Event("order:created", BuyerRoom(populated), populated.id, NoId)>>

\* safeEmitToBuyerAndFarmers: 'order:created' to the buyer's room, then
\* 'suborder:created' to the room of each sub-order's seller. getIo()
\* throwing, or a populated order that is null, ends in the catch with
\* nothing emitted.
CreatedEvents(populated) ==
  IF GetIoThrows \/ ~populated.exists THEN <<>>
  ELSE <<Event("order:created", BuyerRoom(populated), populated.id, NoId)>>
       \o [i \in 1..Len(populated.subOrders) |->
            Event("suborder:created", FarmerRoom(populated.subOrders[i]), populated.id, i)]

\* safeEmitOrderUpdate(populated, subOrder): 'order:update' to the buyer's
\* room, then 'suborder:update' to the seller of the sub-order given, or to
\* every sub-order's seller when none is given.
UpdateEvents(populated, subOrderId) ==
  IF GetIoThrows \/ ~populated.exists THEN <<>>
  ELSE <<Event("order:update", BuyerRoom(populated), populated.id, NoId)>>
       \o IF subOrderId # NoId
          THEN <<Event("suborder:update", FarmerRoom(populated.subOrders[subOrderId]),
                       populated.id, subOrderId)>>
          ELSE [i \in 1..Len(populated.subOrders) |->
                  Event("suborder:update", FarmerRoom(populated.subOrders[i]), populated.id, i)]

\* findAndPopulateOrder, the best-effort notifications, res.status(201). An
\* exception that escaped would reach the handler's catch, which finds no
\* transaction to abort and calls next(err).
CheckoutRespond(p) ==
  /\ cpc[p] = "respond"
  /\ cpc' = [cpc EXCEPT ![p] = "done"]
  /\ cresp' = [cresp EXCEPT ![p] = IF CreatedNotified THEN Resp(201, "Created")
                                   ELSE Resp(500, "Internal")]
  /\ events' = events \o CreatedEvents(orders[p])
  /\ DropLocals(p)
  /\ UNCHANGED <<dbvars, evars, rvars, fvars, uvars, ctxn>>

\* ------------------------------------------------- status-update requests
\* req.user of a status-update call.
Principal(sub, role, isAdmin) == [sub |-> sub, role |-> role, isAdmin |-> isAdmin]
Principals == {Principal("F1", "farmer", FALSE), Principal("F2", "farmer", FALSE),
               Principal("B1", "buyer", FALSE), Principal("A", "admin", TRUE)}
\* A body field that is absent.
Absent == ""
Call(kind, orderId, subOrderId, itemId, itemStatus, status, setItemsTo, user) ==
  [kind |-> kind, orderId |-> orderId, subOrderId |-> subOrderId, itemId |-> itemId,
   itemStatus |-> itemStatus, status |-> status, setItemsTo |-> setItemsTo, user |-> user]

\* subOrders.id(subOrderId) / items.id(itemId): the position of the
\* subdocument whose _id is the one asked for, 0 for null. A subdocument
\* without an _id is never found.
FindById(docs, id) ==
  IF \E i \in 1..Len(docs) : docs[i].id # NoId /\ docs[i].id = id
  THEN CHOOSE i \in 1..Len(docs) : docs[i].id # NoId /\ docs[i].id = id
  ELSE 0

\* permissions: farmer of this subOrder or admin
MayMutate(user, subOrder) == user.isAdmin \/ subOrder.farmer = user.sub

\* Faulty variant of ValidOrderDoc: status paths declared without enum.
ValidOrderDocNoEnum(doc) == TRUE

\* Schema validation run by save(): the enum of every status path.
ValidOrderDoc(doc) ==
  /\ doc.status \in OrderStatusEnum
  /\ \A i \in 1..Len(doc.subOrders) :
       /\ doc.subOrders[i].status \in SubOrderStatusEnum
       /\ \A j \in 1..Len(doc.subOrders[i].items) :
            doc.subOrders[i].items[j].itemStatus \in ALLOWED_ITEM_STATUSES

\* order.save() sends the paths the handler (or the pre-save hook) changed
\* on the loaded document and no other: `db` is the stored document, `orig`
\* the document as loaded, `new` the document being saved.
Changed(old, new, cur) == IF new # old THEN new ELSE cur
SavedItem(db, orig, new) ==
  [db EXCEPT !.itemStatus = Changed(orig.itemStatus, new.itemStatus, db.itemStatus)]
SavedSub(db, orig, new) ==
  [db EXCEPT !.status = Changed(orig.status, new.status, db.status),
             !.items = [j \in 1..Len(db.items) |->
                          SavedItem(db.items[j], orig.items[j], new.items[j])]]
\* Faulty variant of SavedOrder: a save that writes the whole document.
SavedWholeDocument(db, orig, new) == new

\* Faulty variant of SavedOrder: a save that also writes each item's
\* priceAtOrder from the listing as it is now.
SavedOrderRepriced(db, orig, new) ==
  [db EXCEPT !.status = Changed(orig.status, new.status, db.status),
             !.lastUpdatedBy = Changed(orig.lastUpdatedBy, new.lastUpdatedBy, db.lastUpdatedBy),
             !.subOrders = [i \in 1..Len(db.subOrders) |->
                LET so == SavedSub(db.subOrders[i], orig.subOrders[i], new.subOrders[i])
                IN [so EXCEPT !.items = [j \in 1..Len(so.items) |->
                          [so.items[j] EXCEPT
                             !.priceAtOrder = listings[so.items[j].product].price]]]]]

SavedOrder(db, orig, new) ==
  [db EXCEPT !.status = Changed(orig.status, new.status, db.status),
             !.lastUpdatedBy = Changed(orig.lastUpdatedBy, new.lastUpdatedBy, db.lastUpdatedBy),
             !.subOrders = [i \in 1..Len(db.subOrders) |->
                              SavedSub(db.subOrders[i], orig.subOrders[i], new.subOrders[i])]]

\* --------------------------------------------------- status-update calls
\* The call ends with a response; of the request only which handler it
\* went to is kept.
UpdateEnd(u, call, resp) ==
  /\ upc' = [upc EXCEPT ![u] = "done"]
  /\ ucall' = [ucall EXCEPT ![u] = [kind |-> call.kind]]
  /\ uresp' = [uresp EXCEPT ![u] = resp]
  /\ uorig' = [uorig EXCEPT ![u] = NoOrder]
  /\ udoc' = [udoc EXCEPT ![u] = NoOrder]

\* The handler has changed the loaded document and calls order.save().
UpdateToSave(u, call, loaded, changed) ==
  /\ upc' = [upc EXCEPT ![u] = "save"]
  /\ ucall' = [ucall EXCEPT ![u] = call]
  /\ uorig' = [uorig EXCEPT ![u] = loaded]
  /\ udoc' = [udoc EXCEPT ![u] = changed]
  /\ UNCHANGED uresp

\* updateOrderItemStatus up to order.save().
UpdateOrderItemStatus(u, call) ==
  /\ upc[u] = "idle"
  /\ call.kind = "item"
  /\ LET order == orders[call.orderId]
         si == FindById(order.subOrders, call.subOrderId)
         subOrder == order.subOrders[si]
         ii == FindById(subOrder.items, call.itemId)
     IN
     IF call.itemStatus \notin ALLOWED_ITEM_STATUSES
     THEN UpdateEnd(u, call, Resp(400, "ValidationError"))
     ELSE IF ~order.exists
     THEN UpdateEnd(u, call, Resp(404, "OrderNotFound"))
     ELSE IF si = 0
     THEN UpdateEnd(u, call, Resp(404, "SubOrderNotFound"))
     ELSE IF ii = 0
     THEN UpdateEnd(u, call, Resp(404, "ItemNotFound"))
     ELSE IF ~MayMutate(call.user, subOrder)
     THEN UpdateEnd(u, call, Resp(403, "Forbidden"))
     ELSE LET d1 == [order EXCEPT !.subOrders[si].items[ii].itemStatus = call.itemStatus]
              d2 == [d1 EXCEPT !.subOrders[si].status =
                                 deriveSubOrderStatus(d1.subOrders[si].items)]
              d3 == [d2 EXCEPT !.status = deriveOrderStatus(d2.subOrders),
                               !.lastUpdatedBy = call.user.sub]
          IN UpdateToSave(u, call, order, d3)
  /\ UNCHANGED <<dbvars, evars, events, rvars, fvars, cvars>>

\* Faulty variant of SubOrderChange: the sub-order status derived from its
\* items instead of taken from the request.
SubOrderChangeDerives(order, si, call) ==
  LET subOrder == order.subOrders[si]
      items2 == IF call.setItemsTo # Absent
                THEN [j \in 1..Len(subOrder.items) |->
                        [subOrder.items[j] EXCEPT !.itemStatus = call.setItemsTo]]
                ELSE subOrder.items
      d2 == [order EXCEPT !.subOrders[si].items = items2,
                          !.subOrders[si].status = deriveSubOrderStatus(items2)]
  IN [d2 EXCEPT !.status = deriveOrderStatus(d2.subOrders),
                !.lastUpdatedBy = call.user.sub]

\* What updateSubOrderStatus does to the loaded document: the status as
\* given, every item's status if setItemsTo is given, the order status
\* recalculated.
SubOrderChange(order, si, call) ==
  LET subOrder == order.subOrders[si]
      d1 == [order EXCEPT !.subOrders[si].status = call.status]
      d2 == IF call.setItemsTo # Absent
            THEN [d1 EXCEPT !.subOrders[si].items =
                    [j \in 1..Len(subOrder.items) |->
                       [subOrder.items[j] EXCEPT !.itemStatus = call.setItemsTo]]]
            ELSE d1
  IN [d2 EXCEPT !.status = deriveOrderStatus(d2.subOrders),
                !.lastUpdatedBy = call.user.sub]

\* updateSubOrderStatus up to order.save().
UpdateSubOrderStatus(u, call) ==
  /\ upc[u] = "idle"
  /\ call.kind = "sub"
  /\ LET order == orders[call.orderId]
         si == FindById(order.subOrders, call.subOrderId)
         subOrder == order.subOrders[si]
     IN
     IF call.status = Absent
     THEN UpdateEnd(u, call, Resp(400, "ValidationError"))
     ELSE IF call.setItemsTo # Absent /\ call.setItemsTo \notin ALLOWED_ITEM_STATUSES
     THEN UpdateEnd(u, call, Resp(400, "ValidationError"))
     ELSE IF ~order.exists
     THEN UpdateEnd(u, call, Resp(404, "OrderNotFound"))
     ELSE IF si = 0
     THEN UpdateEnd(u, call, Resp(404, "SubOrderNotFound"))
     ELSE IF ~MayMutate(call.user, subOrder)
     THEN UpdateEnd(u, call, Resp(403, "Forbidden"))
     ELSE UpdateToSave(u, call, order, SubOrderChange(order, si, call))
  /\ UNCHANGED <<dbvars, evars, events, rvars, fvars, cvars>>

\* updateOrderStatus (admin) up to order.save().
UpdateOrderStatus(u, call) ==
  /\ upc[u] = "idle"
  /\ call.kind = "admin"
  /\ LET order == orders[call.orderId] IN
     IF ~call.user.isAdmin
     THEN UpdateEnd(u, call, Resp(403, "Forbidden"))
     ELSE IF ~order.exists
     THEN UpdateEnd(u, call, Resp(404, "OrderNotFound"))
     ELSE UpdateToSave(u, call, order,
                       [order EXCEPT !.status = call.status,
                                     !.lastUpdatedBy = call.user.sub])
  /\ UNCHANGED <<dbvars, evars, events, rvars, fvars, cvars>>

\* order.save(): validation, the pre-save hook, the write of the changed
\* paths. A validation error, or the document being gone from the
\* collection, is thrown to the handler's catch (next(err)).
OrderSave(u) ==
  /\ upc[u] = "save"
  /\ IF ~ValidOrderDoc(udoc[u]) \/ ~orders[ucall[u].orderId].exists
     THEN /\ UpdateEnd(u, ucall[u], Resp(500, "Internal"))
          /\ UNCHANGED orders
     ELSE /\ orders' = [orders EXCEPT ![ucall[u].orderId] =
                          SavedOrder(@, uorig[u], PreSave(udoc[u]))]
          /\ upc' = [upc EXCEPT ![u] = "respond"]
          /\ uorig' = [uorig EXCEPT ![u] = NoOrder]
          /\ udoc' = [udoc EXCEPT ![u] = NoOrder]
          /\ UNCHANGED <<ucall, uresp>>
  /\ UNCHANGED <<listings, stock0, evars, events, rvars, fvars, cvars>>

\* findAndPopulateOrder, the best-effort notifications, res.json(populated).
UpdateRespond(u) ==
  /\ upc[u] = "respond"
  /\ UpdateEnd(u, ucall[u], IF UpdateNotified THEN Resp(200, "OK") ELSE Resp(500, "Internal"))
  /\ events' = events \o UpdateEvents(orders[ucall[u].orderId], ucall[u].subOrderId)
  /\ UNCHANGED <<dbvars, evars, rvars, fvars, cvars>>

\* ------------------------------------------------ specification: checkout
InitCalls ==
  /\ cpc = [p \in Clients |-> "idle"]
  /\ cwork = [p \in Clients |-> <<>>]
  /\ cso = [p \in Clients |-> 1]
  /\ cit = [p \in Clients |-> 1]
  /\ csubtotal = [p \in Clients |-> 0]
  /\ cgrand = [p \in Clients |-> 0]
  /\ ctxn = [p \in Clients |-> NoTxn]
  /\ cdoc = [p \in Clients |-> NoOrder]
  /\ cresp = [p \in Clients |-> NoResp]
  /\ upc = [u \in Updaters |-> "idle"]
  /\ ucall = [u \in Updaters |-> NoCall]
  /\ uorig = [u \in Updaters |-> NoOrder]
  /\ udoc = [u \in Updaters |-> NoOrder]
  /\ uresp = [u \in Updaters |-> NoResp]
  /\ rcall = NoRead
  /\ rresp = NoReply
  /\ dcall = NoDerive
  /\ dres = NoResult
  /\ events = <<>>
  /\ rprev = NoPrev

\* The socket server is initialised, mail goes out, the clock has not moved.
InitEnv ==
  /\ now = 0
  /\ io = TRUE
  /\ smtpDown = {}

\* The first listing with any stock up to MaxStock, the second with
\* OtherStock, no order yet, no call running.
InitCheckout ==
  /\ \E q \in {f \in [ListingIds -> 0..(MaxStock + OtherStock)] :
                  f["L1"] <= MaxStock /\ f["L2"] = OtherStock} :
       /\ listings = [l \in ListingIds |->
                        [quantity |-> q[l], price |-> ListingPrice[l],
                         farmer |-> ListingFarmer[l], ver |-> 0]]
       /\ stock0 = q
  /\ orders = [o \in OrderIds |-> NoOrder]
  /\ InitCalls
  /\ InitEnv

CheckoutNext(p, bodies) ==
  \/ \E body \in bodies : CheckoutStart(p, body)
  \/ CheckoutRead(p)
  \/ CheckoutReserve(p)
  \/ \E fails \in BOOLEAN : CheckoutCreate(p, fails)
  \/ CheckoutCommit(p)
  \/ CheckoutRespond(p)

vars == <<listings, orders, stock0, cpc, cwork, cso, cit, csubtotal, cgrand, ctxn, cdoc, cresp,
          upc, ucall, uorig, udoc, uresp, now, io, smtpDown, rcall, rresp, dcall, dres,
          events, rprev>>

NextCheckout == \E p \in Clients : CheckoutNext(p, CheckoutBodies)
SpecCheckout == InitCheckout /\ [][NextCheckout]_vars

\* ------------------------------------------ specification: status updates
\* One checkout creates the order; two status-update calls run against it.
StatusBodies ==
  {<<SubReq("F1", <<[product |-> "L1", qty |-> 1]>>),
     SubReq("F2", <<[product |-> "L2", qty |-> 1]>>)>>,
   <<SubReq("F1", <<[product |-> "L1", qty |-> 1], [product |-> "L2", qty |-> 1]>>)>>}
SubStatusInputs == {Absent, "bogus", "accepted", "ready", "delivered", "cancelled", "rejected"}
SetItemsInputs == {Absent, "bogus", "delivered", "cancelled"}
ItemStatusInputs == {"bogus", "accepted", "delivered"}
\* Items carry no _id to name them by; a request names an item by its
\* position, and every request here names the first item of the sub-order.
ItemIdInputs == {1}
OrderStatusInputs == {"bogus", "delivered", "cancelled"}
StatusCalls ==
  {Call("item", "c1", sid, iid, st, Absent, Absent, user) :
     sid \in {1, 2}, iid \in ItemIdInputs, st \in ItemStatusInputs, user \in Principals}
  \cup {Call("sub", "c1", sid, NoId, Absent, st, b, user) :
     sid \in {1, 2}, st \in SubStatusInputs, b \in SetItemsInputs, user \in Principals}
  \cup {Call("admin", "c1", NoId, NoId, Absent, st, Absent, user) :
     st \in OrderStatusInputs, user \in Principals}

InitStatus ==
  /\ listings = [l \in ListingIds |->
                   [quantity |-> IF l = "L1" THEN MaxStock ELSE OtherStock,
                    price |-> ListingPrice[l], farmer |-> ListingFarmer[l], ver |-> 0]]
  /\ stock0 = [l \in ListingIds |-> IF l = "L1" THEN MaxStock ELSE OtherStock]
  /\ orders = [o \in OrderIds |-> NoOrder]
  /\ InitCalls
  /\ InitEnv

UpdateNext(u, calls) ==
  \/ \E call \in calls : UpdateOrderItemStatus(u, call)
  \/ \E call \in calls : UpdateSubOrderStatus(u, call)
  \/ \E call \in calls : UpdateOrderStatus(u, call)
  \/ OrderSave(u)
  \/ UpdateRespond(u)

NextStatus ==
  \/ CheckoutNext("c1", StatusBodies)
  \/ \E u \in Updaters : UpdateNext(u, StatusCalls)
SpecStatus == InitStatus /\ [][NextStatus]_vars

\* ------------------------------------------------------- read handlers
\* Who may call the read handlers and deleteOrder: the principals above, a
\* buyer of the second checkout who is registered as a farmer, and a user
\* whose role is 'admin' while isAdmin is false.
ReadPrincipals ==
  Principals \cup {Principal("B2", "farmer", FALSE), Principal("R", "admin", FALSE)}
\* An id no order has.
AbsentOrderId == "c0"
ReadIds == OrderIds \cup {AbsentOrderId}
\* Order.findById(id): the stored document, NoOrder for null.
OrderById(id) == IF id \in OrderIds THEN orders[id] ELSE NoOrder

\* order.subOrders.some(so => String(so.farmer) === String(userId))
HasSubOrderOf(order, userId) ==
  \E i \in 1..Len(order.subOrders) : order.subOrders[i].farmer = userId

\* Faulty variant of getOrder: a seller is answered with their own
\* sub-orders only.
getOrderOwnSlice(id, user) ==
  LET order == OrderById(id) IN
  IF ~order.exists THEN Reply(404, <<>>)
  ELSE IF user.role = "farmer" /\ HasSubOrderOf(order, user.sub)
  THEN Reply(200, <<[order EXCEPT !.subOrders =
                        SelectSeq(@, LAMBDA so : so.farmer = user.sub)]>>)
  ELSE Reply(200, <<order>>)

\* Faulty variant of getOrder: any farmer may read any order.
getOrderAnyFarmer(id, user) ==
  LET order == OrderById(id) IN
  IF ~order.exists THEN Reply(404, <<>>)
  ELSE IF ~user.isAdmin /\ user.role # "farmer" /\ order.buyer # user.sub
  THEN Reply(403, <<>>)
  ELSE Reply(200, <<order>>)

getOrder(id, user) ==
  LET order == OrderById(id)
      isAdmin == user.isAdmin
      isFarmer == user.role = "farmer"
  IN
  IF ~order.exists THEN Reply(404, <<>>)
  ELSE IF ~isAdmin /\ isFarmer /\ ~HasSubOrderOf(order, user.sub) THEN Reply(403, <<>>)
  ELSE IF ~isAdmin /\ ~isFarmer /\ order.buyer # user.sub THEN Reply(403, <<>>)
  ELSE Reply(200, <<order>>)

\* .sort('-createdAt') / { $sort: { createdAt: -1 } }: the orderings of a set
\* of documents the sort can return (documents with equal createdAt come
\* in either order).
SortedNewestFirst(docs) ==
  {seq \in [1..Cardinality(docs) -> docs] :
     /\ \A i, j \in 1..Cardinality(docs) : i # j => seq[i] # seq[j]
     /\ \A i, j \in 1..Cardinality(docs) : i < j => seq[i].createdAt >= seq[j].createdAt}

\* Faulty variant of ListFilter: the farmer branch missing, so that a farmer
\* is served by the buyer filter.
ListFilterNoFarmerBranch(order, user) ==
  IF user.isAdmin THEN TRUE ELSE order.buyer = user.sub

\* The filter of listOrders: none for an admin, 'subOrders.farmer' for a
\* farmer, buyer otherwise.
ListFilter(order, user) ==
  IF user.isAdmin THEN TRUE
  ELSE IF user.role = "farmer" THEN HasSubOrderOf(order, user.sub)
  ELSE order.buyer = user.sub

\* The responses listOrders can give.
listOrders(user) ==
  {Reply(200, seq) :
     seq \in SortedNewestFirst({orders[o] : o \in {x \in OrderIds :
                                   orders[x].exists /\ ListFilter(orders[x], user)}})}

\* $filter of the $project stage: the sub-orders whose farmer is objId, in
\* their order.
RECURSIVE FilterSubOrders(_, _)
FilterSubOrders(subOrders, objId) ==
  IF subOrders = <<>> THEN <<>>
  ELSE IF Head(subOrders).farmer = objId
       THEN <<Head(subOrders)>> \o FilterSubOrders(Tail(subOrders), objId)
       ELSE FilterSubOrders(Tail(subOrders), objId)

\* Faulty variant of Project: the $filter left out of the projection.
ProjectUnfiltered(order, objId) ==
  [id |-> order.id, createdAt |-> order.createdAt, buyer |-> order.buyer,
   subOrders |-> order.subOrders,
   grandTotal |-> order.grandTotal, status |-> order.status]

\* The $project stage of getFarmerSubOrders.
Project(order, objId) ==
  [id |-> order.id, createdAt |-> order.createdAt, buyer |-> order.buyer,
   subOrders |-> FilterSubOrders(order.subOrders, objId),
   grandTotal |-> order.grandTotal, status |-> order.status]

\* The responses getFarmerSubOrders can give: $match, $project, $sort.
getFarmerSubOrders(user) ==
  {Reply(200, seq) :
     seq \in SortedNewestFirst({Project(orders[o], user.sub) : o \in {x \in OrderIds :
                                   orders[x].exists /\ HasSubOrderOf(orders[x], user.sub)}})}

Served(op, id, user, reply) ==
  /\ rcall' = [op |-> op, id |-> id, user |-> user]
  /\ rresp' = reply
  /\ rprev' = [call |-> rcall, reply |-> rresp]

GetOrder(id, user) ==
  /\ Served("get", id, user, getOrder(id, user))
  /\ UNCHANGED <<dbvars, evars, events, fvars, cvars, uvars>>

ListOrders(user) ==
  /\ \E reply \in listOrders(user) : Served("list", AbsentOrderId, user, reply)
  /\ UNCHANGED <<dbvars, evars, events, fvars, cvars, uvars>>

GetFarmerSubOrders(user) ==
  /\ \E reply \in getFarmerSubOrders(user) : Served("farmer", AbsentOrderId, user, reply)
  /\ UNCHANGED <<dbvars, evars, events, fvars, cvars, uvars>>

\* Faulty variant of MayDelete: the isAdmin check left out of the handler.
MayDeleteAnyone(user) == TRUE

\* if (!req.user.isAdmin) return 403
MayDelete(user) == user.isAdmin

\* Faulty variant of ListingsAfterDelete: the deleted order's units put back
\* on their listings.
ListingsAfterDeleteRestocks(order) ==
  [l \in ListingIds |->
     [listings[l] EXCEPT !.quantity = @ + SumSeq([i \in 1..Len(order.subOrders) |->
        SumSeq([j \in 1..Len(order.subOrders[i].items) |->
                  IF order.subOrders[i].items[j].product = l
                  THEN order.subOrders[i].items[j].qty ELSE 0])])]]

\* Order.findByIdAndDelete touches the orders collection only: the
\* listings as the delete leaves them.
ListingsAfterDelete(order) == listings

\* deleteOrder: Order.findByIdAndDelete.
DeleteOrder(id, user) ==
  /\ IF ~MayDelete(user)
     THEN Served("delete", id, user, Reply(403, <<>>)) /\ UNCHANGED <<orders, listings>>
     ELSE IF ~OrderById(id).exists
     THEN Served("delete", id, user, Reply(404, <<>>)) /\ UNCHANGED <<orders, listings>>
     ELSE /\ Served("delete", id, user, Reply(204, <<>>))
          /\ orders' = [orders EXCEPT ![id] = NoOrder]
          /\ listings' = ListingsAfterDelete(orders[id])
  /\ UNCHANGED <<stock0, evars, events, fvars, cvars, uvars>>

\* Time passes.
Tick ==
  /\ now < MaxClock
  /\ now' = now + 1
  /\ UNCHANGED <<dbvars, io, smtpDown, events, rvars, fvars, cvars, uvars>>

\* ------------------------------------------------- specification: reads
\* Two checkouts, an admin-level status call, deletes and reads.
ReadBodies ==
  {<<SubReq("F1", <<[product |-> "L1", qty |-> 1]>>),
     SubReq("F2", <<[product |-> "L2", qty |-> 1]>>)>>,
   <<SubReq("F1", <<[product |-> "L1", qty |-> 1]>>)>>}
ReadCalls ==
  {Call("admin", o, NoId, NoId, Absent, "cancelled", Absent, user) :
     o \in OrderIds, user \in {Principal("A", "admin", TRUE), Principal("F1", "farmer", FALSE),
                               Principal("B1", "buyer", FALSE)}}
ReadNext ==
  \/ \E id \in ReadIds, user \in ReadPrincipals : GetOrder(id, user)
  \/ \E user \in ReadPrincipals : ListOrders(user)
  \/ \E user \in ReadPrincipals : GetFarmerSubOrders(user)
  \/ \E id \in ReadIds, user \in ReadPrincipals : DeleteOrder(id, user)
\* The response has gone out; the handler has returned.
ReadDone ==
  /\ rcall # NoRead
  /\ rcall' = NoRead
  /\ rresp' = NoReply
  /\ rprev' = NoPrev
  /\ UNCHANGED <<dbvars, evars, events, fvars, cvars, uvars>>
\* A one-step handler's response is looked at before anything else moves.
NextRead ==
  \/ /\ rcall = NoRead
     /\ \/ \E p \in Clients : CheckoutNext(p, ReadBodies)
        \/ UpdateNext("u1", ReadCalls)
        \/ ReadNext
        \/ Tick
  \/ ReadDone
SpecRead == InitStatus /\ [][NextRead]_vars

\* ------------------------------------------- specification: derivations
\* The status lists up to MaxLen over a set of values, as the items or
\* sub-orders carrying them.
StatusLists(vals) == UNION {[1..n -> vals] : n \in 0..MaxLen}
Reorderings(n) == {f \in [1..n -> 1..n] : \A i, j \in 1..n : i # j => f[i] # f[j]}
Reordered(list, f) == [i \in 1..Len(list) |-> list[f[i]]]
AsItems(list) == [i \in 1..Len(list) |-> [itemStatus |-> list[i]]]
AsSubOrders(list) == [i \in 1..Len(list) |-> [status |-> list[i]]]

\* deriveSubOrderStatus called on a list of items and on the same items in
\* another order.
DeriveSubOrder(list, f) ==
  /\ dcall' = [fn |-> "deriveSubOrderStatus", input |-> list, other |-> Reordered(list, f)]
  /\ dres' = <<deriveSubOrderStatus(AsItems(list)),
               deriveSubOrderStatus(AsItems(Reordered(list, f)))>>
  /\ UNCHANGED <<dbvars, evars, events, rvars, cvars, uvars>>

\* deriveOrderStatus called on a list of sub-orders and on the same
\* sub-orders in another order.
DeriveOrder(list, f) ==
  /\ dcall' = [fn |-> "deriveOrderStatus", input |-> list, other |-> Reordered(list, f)]
  /\ dres' = <<deriveOrderStatus(AsSubOrders(list)),
               deriveOrderStatus(AsSubOrders(Reordered(list, f)))>>
  /\ UNCHANGED <<dbvars, evars, events, rvars, cvars, uvars>>

\* The pre-save hook's updateDerivedStatus applied to the sub-orders that
\* the controller derived order.status from.
DeriveOnSave(list) ==
  /\ dcall' = [fn |-> "updateDerivedStatus", input |-> list, other |-> list]
  /\ dres' = <<updateDerivedStatus(AsSubOrders(list)), deriveOrderStatus(AsSubOrders(list))>>
  /\ UNCHANGED <<dbvars, evars, events, rvars, cvars, uvars>>

\* The function has returned.
DeriveDone ==
  /\ dcall # NoDerive
  /\ dcall' = NoDerive
  /\ dres' = NoResult
  /\ UNCHANGED <<dbvars, evars, events, rvars, cvars, uvars>>

NextDerive ==
  \/ /\ dcall = NoDerive
     /\ \/ \E list \in StatusLists(ALLOWED_ITEM_STATUSES) :
             \E f \in Reorderings(Len(list)) : DeriveSubOrder(list, f)
        \/ \E list \in StatusLists(SubOrderStatusEnum) :
             \E f \in Reorderings(Len(list)) : DeriveOrder(list, f)
        \/ \E list \in StatusLists(SubOrderStatusEnum) : DeriveOnSave(list)
  \/ DeriveDone
SpecDerive == InitStatus /\ [][NextDerive]_vars

\* ------------------------------------------------------ listing updates
\* Bodies of PATCH /product-listings/:id: the fields to set.
ListingUpdates == {[price |-> 12], [price |-> 0], [quantity |-> 0 - 1]}
\* The listings asked for, and who asks: the first listing's seller and a
\* user who owns no listing.
ListingTargets == {"L1", MissingId}
ListingCallers == {Principal("F1", "farmer", FALSE), Principal("B1", "buyer", FALSE)}
Has(updates, field) == field \in DOMAIN updates
\* { $set: updates } applied to a listing.
SetFields(listing, updates) ==
  [listing EXCEPT !.price = IF Has(updates, "price") THEN updates.price ELSE @,
                  !.quantity = IF Has(updates, "quantity") THEN updates.quantity ELSE @,
                  !.ver = @ + 1]

\* updateProductListing: the checks on price and quantity, then
\* findOneAndUpdate({ _id, farmer: req.user.sub }, { $set: updates }); the
\* seller's notification mail is sent outside any try/catch.
UpdateProductListing(id, user, updates) ==
  /\ IF Has(updates, "price") /\ updates.price <= 0
     THEN Served("listing", id, user, Reply(400, <<>>)) /\ UNCHANGED listings
     ELSE IF Has(updates, "quantity") /\ updates.quantity < 0
     THEN Served("listing", id, user, Reply(400, <<>>)) /\ UNCHANGED listings
     ELSE IF id \notin ListingIds \/ listings[id].farmer # user.sub
     THEN Served("listing", id, user, Reply(404, <<>>)) /\ UNCHANGED listings
     ELSE /\ listings[id].ver < MaxWrites
          /\ listings' = [listings EXCEPT ![id] = SetFields(@, updates)]
          /\ Served("listing", id, user,
                    IF SendThrows("farmer") THEN Reply(500, <<>>)
                    ELSE Reply(200, <<listings'[id]>>))
  /\ UNCHANGED <<orders, stock0, evars, events, fvars, cvars, uvars>>

\* init(server) of services/socket.
SocketInit ==
  /\ ~io
  /\ io' = TRUE
  /\ UNCHANGED <<dbvars, now, smtpDown, events, rvars, fvars, cvars, uvars>>

\* ------------------------------------------ specification: notifications
\* One checkout, then status updates, with a mail transport and a socket
\* server that may be failing.
InitNotify ==
  /\ listings = [l \in ListingIds |->
                   [quantity |-> IF l = "L1" THEN MaxStock ELSE OtherStock,
                    price |-> ListingPrice[l], farmer |-> ListingFarmer[l], ver |-> 0]]
  /\ stock0 = [l \in ListingIds |-> IF l = "L1" THEN MaxStock ELSE OtherStock]
  /\ orders = [o \in OrderIds |-> NoOrder]
  /\ InitCalls
  /\ now = 0
  /\ io \in BOOLEAN
  /\ smtpDown \in SUBSET MailRecipients

LifecycleCalls ==
  {call \in StatusCalls : call.user.sub \in {"F1", "A"} /\ call.subOrderId \in {NoId, 1}}
NextNotify ==
  \/ CheckoutNext("c1", StatusBodies)
  \/ UpdateNext("u1", LifecycleCalls)
  \/ SocketInit
SpecNotify == InitNotify /\ [][NextNotify]_vars

\* --------------------------------- specification: an order after checkout
\* One checkout, then status updates and listing updates.
NextLifecycle ==
  \/ /\ rcall = NoRead
     /\ \/ CheckoutNext("c1", StatusBodies)
        \/ UpdateNext("u1", LifecycleCalls)
        \/ \E id \in ListingTargets, user \in ListingCallers, updates \in ListingUpdates :
             UpdateProductListing(id, user, updates)
  \/ ReadDone
SpecLifecycle == InitStatus /\ [][NextLifecycle]_vars

\* ----------------------------------------- specification: repeated reads
\* One checkout and status updates; a read may be followed at once by a
\* getOrder for the same order, before anything else moves.
Readers == {Principal("F1", "farmer", FALSE), Principal("B1", "buyer", FALSE),
            Principal("A", "admin", TRUE)}
NextReread ==
  \/ /\ rcall = NoRead
     /\ \/ CheckoutNext("c1", StatusBodies)
        \/ UpdateNext("u1", LifecycleCalls)
        \/ \E user \in Readers : GetOrder("c1", user)
        \/ \E user \in Readers : ListOrders(user)
        \/ \E user \in Readers : GetFarmerSubOrders(user)
  \/ /\ rcall # NoRead
     /\ rcall.op = "get"
     /\ rprev = NoPrev
     /\ \E user \in Readers : GetOrder(rcall.id, user)
  \/ ReadDone
SpecReread == InitStatus /\ [][NextReread]_vars

\* ------------------------------------- specification: sellers of a body
\* Checkouts whose bodies name one or two sub-orders, each for any seller:
\* Joi asks of `farmer` only that it is a 24-digit hex string.
SellerBodies ==
  {<<>>, <<SubReq("F1", <<>>)>>}
  \cup {<<SubReq(f, <<[product |-> l, qty |-> 1]>>)>> : f \in Farmers, l \in ListingIds}
  \cup {<<SubReq(f, <<[product |-> l, qty |-> 1]>>), SubReq(g, <<[product |-> m, qty |-> 1]>>)>> :
          f \in Farmers, g \in Farmers, l \in ListingIds, m \in ListingIds}
NextSellers == \E p \in Clients : CheckoutNext(p, SellerBodies)
SpecSellers == InitStatus /\ [][NextSellers]_vars

\* ------------------------------------------ specification: order calls
\* Checkouts, status updates of every kind (cancellations and rejections
\* among them) and deletions.
OrderOpsBodies ==
  {<<SubReq("F1", <<[product |-> "L1", qty |-> q]>>)>> : q \in 1..MaxQty}
  \cup {<<SubReq("F1", <<[product |-> "L1", qty |-> 1]>>),
          SubReq("F2", <<[product |-> "L2", qty |-> 1]>>)>>}
OrderOpsCalls ==
  {call \in StatusCalls :
     /\ call.user.sub \in {"F1", "A"} /\ call.subOrderId \in {NoId, 1}
     /\ call.status \in {Absent, "cancelled", "rejected", "delivered"}
     /\ call.setItemsTo \in {Absent, "cancelled"}}
Deleters == {Principal("A", "admin", TRUE), Principal("F1", "farmer", FALSE)}
NextOrderOps ==
  \/ /\ rcall = NoRead
     /\ \/ \E p \in Clients : CheckoutNext(p, OrderOpsBodies)
        \/ UpdateNext("u1", OrderOpsCalls)
        \/ \E id \in OrderIds, user \in Deleters : DeleteOrder(id, user)
  \/ ReadDone
SpecOrderOps == InitStatus /\ [][NextOrderOps]_vars

\* ================================================================ claims
\* Units of listing l that a document's items ask for.
RECURSIVE SumTo(_, _)
SumTo(f, n) == IF n = 0 THEN 0 ELSE f[n] + SumTo(f, n - 1)
Sum(f) == SumTo(f, Len(f))
QtyOf(subOrders, l) ==
  Sum([i \in 1..Len(subOrders) |->
         Sum([j \in 1..Len(subOrders[i].items) |->
                IF subOrders[i].items[j].product = l
                THEN subOrders[i].items[j].qty ELSE 0])])
\* Units of listing l held by the persisted orders.
Persisted == {o \in OrderIds : orders[o].exists}
RECURSIVE HeldBy(_, _)
HeldBy(os, l) ==
  IF os = {} THEN 0
  ELSE LET o == CHOOSE x \in os : TRUE
       IN QtyOf(orders[o].subOrders, l) + HeldBy(os \ {o}, l)
Held(l) == HeldBy(Persisted, l)

Failed(p) == cpc[p] = "done" /\ cresp[p].code # 201
\* p's call ends in this step without success.
FailsNow(p) == cpc[p] # "done" /\ cpc'[p] = "done" /\ cresp'[p].code # 201
\* p's transaction commits in this step.
CommitsNow(p) == cpc[p] = "commit" /\ cpc'[p] = "respond"

\* C1 -- Stock invariant: whatever the interleaving of the checkouts, the
\* units of a listing held by the persisted orders never exceed the quantity
\* Q the listing started with, and no listing's quantity is ever negative.
C1_StockInvariant ==
  \A l \in ListingIds : listings[l].quantity >= 0 /\ Held(l) <= stock0[l]

\* Both checkouts have persisted an order holding units of L1, and L1 is
\* sold out.
C1_Witness ==
  /\ \A p \in Clients : orders[p].exists /\ QtyOf(orders[p].subOrders, "L1") > 0
  /\ listings["L1"].quantity = 0

\* C2 -- Overselling scenario: L1 starts with quantity 1 and both checkouts
\* ask for one unit of L1 and nothing else; the call that commits leaves
\* L1.quantity = 0, and the call that does not succeed ends with Conflict
\* (409) or InsufficientStock (400), not with any other outcome.
OneOfL1(subOrders) ==
  /\ Len(subOrders) = 1
  /\ Len(subOrders[1].items) = 1
  /\ subOrders[1].items[1].product = "L1"
  /\ subOrders[1].items[1].qty = 1
AsksOneOfL1(p) ==
  \/ cpc[p] \in {"read", "reserve", "create", "commit"} /\ OneOfL1(cwork[p])
  \/ orders[p].exists /\ OneOfL1(orders[p].subOrders)
C2_Overselling ==
  [][\A p \in Clients :
       (stock0["L1"] = 1 /\ \A q \in Clients : AsksOneOfL1(q))
       => /\ CommitsNow(p) => listings'["L1"].quantity = 0
          /\ (FailsNow(p) /\ cpc[p] \in {"read", "reserve"})
               => cresp'[p].kind \in {"Conflict", "InsufficientStock"}]_vars

\* C3 -- Atomicity on failure: a checkout that failed has persisted no
\* order, and every unit missing from a listing is held by a persisted
\* order: a failed checkout has left no listing decremented, wherever it
\* stopped.
C3_FailureAtomic ==
  /\ \A p \in Clients : Failed(p) => ~orders[p].exists
  /\ \A l \in ListingIds : listings[l].quantity + Held(l) = stock0[l]

\* A checkout stopped at a later item, after reserving an earlier one, and
\* every listing has the quantity it started with.
C3_Witness ==
  /\ \E p \in Clients :
       /\ Failed(p)
       /\ cresp[p].kind \in {"NotFound", "InsufficientStock"}
       /\ cresp[p].at # <<1, 1>>
  /\ Persisted = {}
  /\ \A l \in ListingIds : listings[l].quantity = stock0[l] /\ stock0[l] > 0

\* C4 -- Exactly-once decrement: when a checkout commits with no other call
\* interleaved, each listing's quantity becomes what it was minus the qty of
\* every item of the request that references it (a listing named by several
\* items is decremented for each), a listing not referenced is unchanged,
\* and exactly one order is persisted.
C4_ExactlyOnce ==
  [][\A p \in Clients :
       (CommitsNow(p) /\ \A q \in Clients \ {p} : cpc[q] = "idle")
       => /\ \A l \in ListingIds :
               listings'[l].quantity = listings[l].quantity - QtyOf(cwork[p], l)
          /\ {o \in OrderIds : orders'[o].exists} = {p}
          /\ QtyOf(orders'[p].subOrders, "L1") = QtyOf(cwork[p], "L1")
          /\ QtyOf(orders'[p].subOrders, "L2") = QtyOf(cwork[p], "L2")]_vars

\* A lone checkout whose two items name the same listing has committed.
C4_Witness ==
  \E p \in Clients :
    /\ cpc[p] = "respond"
    /\ \A q \in Clients \ {p} : cpc[q] = "idle"
    /\ Len(orders[p].subOrders) = 1
    /\ Len(orders[p].subOrders[1].items) = 2
    /\ orders[p].subOrders[1].items[1].product = orders[p].subOrders[1].items[2].product
    /\ listings[orders[p].subOrders[1].items[1].product].quantity = 0

\* C5 -- Totals at creation: in every persisted order each item's
\* priceAtOrder is the price of its listing, each sub-order's subtotal is the
\* sum of qty * priceAtOrder over its items, and grandTotal is the sum of the
\* subtotals (one item, qty 2 at price 10: subtotal 20, grandTotal 20).
ItemsTotal(items) == Sum([j \in 1..Len(items) |-> items[j].qty * items[j].priceAtOrder])
C5_Totals ==
  \A o \in Persisted :
    LET subs == orders[o].subOrders IN
    /\ \A i \in 1..Len(subs) :
         /\ \A j \in 1..Len(subs[i].items) :
              subs[i].items[j].priceAtOrder = listings[subs[i].items[j].product].price
         /\ subs[i].subtotal = ItemsTotal(subs[i].items)
    /\ orders[o].grandTotal = Sum([i \in 1..Len(subs) |-> subs[i].subtotal])
    /\ (Len(subs) = 1 /\ Len(subs[1].items) = 1 /\ subs[1].items[1].qty = 2
        /\ subs[1].items[1].product = "L1")
         => subs[1].subtotal = 20 /\ orders[o].grandTotal = 20

\* An order of two sub-orders, one of them with qty 2, is persisted.
C5_Witness ==
  \E o \in Persisted :
    /\ Len(orders[o].subOrders) = 2
    /\ orders[o].subOrders[1].items[1].qty = 2
    /\ orders[o].grandTotal = 27

\* -------------------------------------------------- status-update claims
\* u's order.save() writes in this step.
SavesNow(u) == upc[u] = "save" /\ upc'[u] = "respond"
Quiet(u) == upc[u] \in {"idle", "done"}
SubPos(o, call) == FindById(orders[o].subOrders, call.subOrderId)

\* C6 -- Order status invariant: after a createOrder and a completed
\* updateOrderItemStatus or updateSubOrderStatus (run to completion, nothing
\* else started, no admin override), the persisted Order.status equals
\* deriveOrderStatus of the persisted sub-orders.
C6_StatusIsDerived ==
  \A o \in Persisted :
    (/\ cpc[o] = "done"
     /\ \E u \in Updaters :
          /\ upc[u] = "done" /\ ucall[u].kind \in {"item", "sub"}
          /\ \A v \in Updaters \ {u} : upc[v] = "idle")
    => orders[o].status = deriveOrderStatus(orders[o].subOrders)

\* C7 -- Admin override: when updateOrderStatus by an admin saves an
\* existing order with a status of the order enum, the persisted
\* Order.status is that status.
C7_AdminOverride ==
  [][\A u \in Updaters :
       (SavesNow(u) /\ ucall[u].kind = "admin")
       => orders'[ucall[u].orderId].status = ucall[u].status]_vars

\* C8 -- updateOrderItemStatus effect: a call that names an existing item
\* (every call here names the first item of its sub-order) is never
\* answered with "Item not found"; from the sub-order's seller or an admin
\* with an allowed itemStatus it is answered 200.
C8_ItemUpdateSucceeds ==
  \A u \in Updaters : uresp[u].kind # "ItemNotFound"

Landed(c) ==
  LET so == orders[c.orderId].subOrders[SubPos(c.orderId, c)] IN
  /\ so.status = c.status
  /\ c.setItemsTo # Absent => \A j \in 1..Len(so.items) : so.items[j].itemStatus = c.setItemsTo
C10_NoLostUpdate ==
  \A u \in Updaters : \A v \in Updaters \ {u} :
    (/\ upc[u] = "respond" /\ upc[v] = "respond"
     /\ ucall[u].kind = "sub" /\ ucall[v].kind = "sub"
     /\ ucall[u].orderId = ucall[v].orderId
     /\ ucall[u].subOrderId # ucall[v].subOrderId)
    => Landed(ucall[u]) /\ Landed(ucall[v])

\* One call has saved its sub-order while the other, on the other
\* sub-order, still holds the document it loaded before that save.
C10_Witness ==
  \E u \in Updaters : \E v \in Updaters \ {u} :
    /\ upc[u] = "respond" /\ upc[v] = "save"
    /\ ucall[u].kind = "sub" /\ ucall[v].kind = "sub"
    /\ ucall[u].orderId = ucall[v].orderId
    /\ ucall[u].subOrderId # ucall[v].subOrderId
    /\ uorig[v].subOrders[ucall[u].subOrderId].status # ucall[u].status
    /\ Landed(ucall[u])

\* C11 -- Mutation authorization: an updateOrderItemStatus or
\* updateSubOrderStatus call with a well-formed body, on an existing
\* sub-order, by a principal that is not an admin and is not that sub-order's
\* seller (the order's buyer, or the seller of another sub-order) is answered
\* Forbidden (403), and the persisted orders are unchanged.
WellFormed(call) ==
  \/ call.kind = "item" /\ call.itemStatus \in ALLOWED_ITEM_STATUSES
  \/ /\ call.kind = "sub" /\ call.status # Absent
     /\ call.setItemsTo \in ALLOWED_ITEM_STATUSES \cup {Absent}
Outsider(call) ==
  LET order == orders[call.orderId]
      si == FindById(order.subOrders, call.subOrderId)
  IN /\ order.exists /\ si # 0
     /\ ~call.user.isAdmin
     /\ order.subOrders[si].farmer # call.user.sub
C11_MutationAuthorization ==
  [][\A u \in Updaters :
       (upc[u] = "idle" /\ upc'[u] # "idle")
       => \A call \in StatusCalls :
            (/\ WellFormed(call) /\ Outsider(call)
             /\ (UpdateOrderItemStatus(u, call) \/ UpdateSubOrderStatus(u, call)))
            => uresp'[u].code = 403 /\ orders' = orders]_vars

\* ------------------------------------------------------------ read claims
\* The principal classes of the visibility table: an admin is a principal
\* with isAdmin, a seller a non-admin whose role is farmer, a buyer any other.
IsAdmin(user) == user.isAdmin
IsSeller(user) == ~user.isAdmin /\ user.role = "farmer"
IsBuyer(user) == ~user.isAdmin /\ user.role # "farmer"
SubOrdersOf(o, s) == {i \in 1..Len(orders[o].subOrders) : orders[o].subOrders[i].farmer = s}
VisibleTo(user) ==
  {o \in Persisted :
     \/ IsAdmin(user)
     \/ IsSeller(user) /\ SubOrdersOf(o, user.sub) # {}
     \/ IsBuyer(user) /\ orders[o].buyer = user.sub}
BodyIds(body) == {body[i].id : i \in 1..Len(body)}
NewestFirst(body) ==
  /\ \A i, j \in 1..Len(body) : i < j => body[i].createdAt >= body[j].createdAt
  /\ \A i, j \in 1..Len(body) : i # j => body[i].id # body[j].id

C14_FarmerSubOrders ==
  rcall.op = "farmer" =>
    LET S == rcall.user.sub IN
    /\ rresp.code = 200
    /\ BodyIds(rresp.body) = {o \in Persisted : SubOrdersOf(o, S) # {}}
    /\ \A i, j \in 1..Len(rresp.body) : i # j => rresp.body[i].id # rresp.body[j].id
    /\ \A i \in 1..Len(rresp.body) :
         LET entry == rresp.body[i]
             order == orders[entry.id]
         IN /\ \A k \in 1..Len(entry.subOrders) : entry.subOrders[k].farmer = S
            /\ {entry.subOrders[k] : k \in 1..Len(entry.subOrders)}
                 = {order.subOrders[k] : k \in SubOrdersOf(entry.id, S)}
            /\ Len(entry.subOrders) = Cardinality(SubOrdersOf(entry.id, S))

\* A seller is served an order that also holds another seller's sub-order.
C14_Witness ==
  /\ rcall.op = "farmer"
  /\ \E i \in 1..Len(rresp.body) :
       /\ Len(orders[rresp.body[i].id].subOrders) = 2
       /\ Len(rresp.body[i].subOrders) = 1

\* C15 -- Admin-only root mutations: updateOrderStatus and deleteOrder by a
\* non-admin answer 403 and leave every order unchanged; deleteOrder by an
\* admin removes an existing order whole (getOrder then answers 404 to
\* everyone) and answers 404 for an absent id.
C15_AdminOnly ==
  [][/\ \A id \in ReadIds, user \in ReadPrincipals :
          (rcall = NoRead /\ rcall' = [op |-> "delete", id |-> id, user |-> user])
          => (  IF ~IsAdmin(user) THEN rresp'.code = 403 /\ orders' = orders
                ELSE IF id \notin Persisted THEN rresp'.code = 404 /\ orders' = orders
                ELSE /\ rresp'.code = 204
                     /\ orders'[id] = NoOrder
                     /\ \A o \in OrderIds \ {id} : orders'[o] = orders[o]
                     /\ \A reader \in ReadPrincipals : getOrder(id, reader)'.code = 404)
     /\ \A u \in Updaters :
          (upc[u] = "idle" /\ upc'[u] # "idle")
          => \A call \in ReadCalls :
               (~IsAdmin(call.user) /\ UpdateOrderStatus(u, call))
               => uresp'[u].code = 403 /\ orders' = orders]_vars

\* An order that a checkout committed has been deleted, and a getOrder for
\* it is answered 404.
C15_Witness ==
  /\ rcall.op = "get" /\ rcall.id \in OrderIds
  /\ cpc[rcall.id] = "done" /\ cresp[rcall.id].code = 201
  /\ rresp.code = 404

\* ------------------------------------------------------ derivation claims
ValuesOf(list) == {list[i] : i \in 1..Len(list)}

\* C16 -- deriveSubOrderStatus follows the branch table, in order: empty ->
\* pending; all delivered -> delivered; all cancelled -> cancelled; any of
\* in_transit / ready / accepted -> in_progress; a delivered and another ->
\* partially_delivered; all pending -> pending; else in_progress. So
\* [delivered, pending] -> partially_delivered, [accepted, pending] ->
\* in_progress, [delivered, accepted] -> in_progress.
SubOrderTable(list) ==
  LET S == ValuesOf(list) IN
  IF S = {} THEN "pending"
  ELSE IF S = {"delivered"} THEN "delivered"
  ELSE IF S = {"cancelled"} THEN "cancelled"
  ELSE IF S \cap {"in_transit", "ready", "accepted"} # {} THEN "in_progress"
  ELSE IF "delivered" \in S /\ S # {"delivered"} THEN "partially_delivered"
  ELSE IF S = {"pending"} THEN "pending"
  ELSE "in_progress"
C16_SubOrderTable ==
  dcall.fn = "deriveSubOrderStatus" =>
    /\ dres[1] = SubOrderTable(dcall.input)
    /\ dcall.input = <<"delivered", "pending">> => dres[1] = "partially_delivered"
    /\ dcall.input = <<"accepted", "pending">> => dres[1] = "in_progress"
    /\ dcall.input = <<"delivered", "accepted">> => dres[1] = "in_progress"

\* deriveSubOrderStatus has been called on [delivered, accepted].
C16_Witness ==
  /\ dcall.fn = "deriveSubOrderStatus"
  /\ dcall.input = <<"delivered", "accepted">>
  /\ dres[1] = "in_progress"

\* C17 -- deriveOrderStatus follows the branch table, in order: empty ->
\* pending; all delivered -> delivered; all cancelled -> cancelled; a
\* delivered and a non-delivered -> partially_delivered; all pending ->
\* pending; else in_progress. So [delivered, cancelled] ->
\* partially_delivered.
OrderTable(list) ==
  LET S == ValuesOf(list) IN
  IF S = {} THEN "pending"
  ELSE IF S = {"delivered"} THEN "delivered"
  ELSE IF S = {"cancelled"} THEN "cancelled"
  ELSE IF "delivered" \in S /\ S \ {"delivered"} # {} THEN "partially_delivered"
  ELSE IF S = {"pending"} THEN "pending"
  ELSE "in_progress"
C17_OrderTable ==
  dcall.fn = "deriveOrderStatus" =>
    /\ dres[1] = OrderTable(dcall.input)
    /\ dcall.input = <<"delivered", "cancelled">> => dres[1] = "partially_delivered"

\* deriveOrderStatus has been called on [delivered, cancelled].
C17_Witness ==
  /\ dcall.fn = "deriveOrderStatus"
  /\ dcall.input = <<"delivered", "cancelled">>
  /\ dres[1] = "partially_delivered"

\* C18 -- Derivation purity: each function returns a status of the order
\* enum for every list, and the same status for a list and for any
\* reordering of it.
C18_Purity ==
  dcall.fn \in {"deriveSubOrderStatus", "deriveOrderStatus"} =>
    /\ dres[1] \in OrderStatusEnum
    /\ dres[1] = dres[2]

\* deriveOrderStatus has been called on a list and on a reordering of it
\* that puts another status first.
C18_Witness ==
  /\ dcall.fn = "deriveOrderStatus"
  /\ Len(dcall.input) = MaxLen
  /\ dcall.other # dcall.input /\ dcall.other[1] # dcall.input[1]
  /\ dcall.input[1] = "delivered"
  /\ dres[1] = "partially_delivered" /\ dres[2] = "partially_delivered"

\* ----------------------------------------------------- lifecycle claims
\* C19 -- Notification isolation: when the buyer's mail, a seller's mail or
\* the socket emit fails after createOrder has committed or a status update
\* has saved, the call still answers 201 / 200, the orders stay as written
\* and no listing quantity is restored.
NotificationsFail == smtpDown # {} \/ ~io
C19_NotificationIsolation ==
  [][NotificationsFail =>
       /\ \A p \in Clients :
            (cpc[p] = "respond" /\ cpc'[p] = "done")
            => cresp'[p].code = 201 /\ orders' = orders /\ listings' = listings
       /\ \A u \in Updaters :
            (upc[u] = "respond" /\ upc'[u] = "done")
            => uresp'[u].code = 200 /\ orders' = orders /\ listings' = listings]_vars

\* With mail failing for every recipient and the socket server not
\* initialised, a checkout has answered 201 and a status update 200, the
\* order is persisted and its units are still off the listing.
C19_Witness ==
  /\ smtpDown = MailRecipients /\ ~io
  /\ cpc["c1"] = "done" /\ cresp["c1"].code = 201
  /\ \E u \in Updaters : upc[u] = "done" /\ uresp[u].code = 200
  /\ orders["c1"].exists
  /\ listings["L1"].quantity = stock0["L1"] - QtyOf(orders["c1"].subOrders, "L1")

\* C20 -- Append-only aggregate: no status update and no listing update
\* (price changes included) changes a created order's buyer, billing, the
\* number or identity of its sub-orders and items, an item's product, qty or
\* priceAtOrder, a sub-order's seller or subtotal, or the grandTotal; only
\* statuses and lastUpdatedBy change.
FrozenItem(it) == [id |-> it.id, product |-> it.product, qty |-> it.qty,
                   priceAtOrder |-> it.priceAtOrder]
FrozenSub(so) == [id |-> so.id, farmer |-> so.farmer, subtotal |-> so.subtotal,
                  items |-> [j \in 1..Len(so.items) |-> FrozenItem(so.items[j])]]
Frozen(order) == [id |-> order.id, buyer |-> order.buyer, billing |-> order.billing,
                  grandTotal |-> order.grandTotal,
                  subOrders |-> [i \in 1..Len(order.subOrders) |->
                                   FrozenSub(order.subOrders[i])]]
C20_AppendOnly ==
  [][\A o \in OrderIds :
       orders[o].exists => orders'[o].exists /\ Frozen(orders'[o]) = Frozen(orders[o])]_vars

\* After the listing's price was raised, a seller's status update has been
\* saved on an order that still carries the price it was placed at.
C20_Witness ==
  \E o \in Persisted :
    /\ orders[o].subOrders[1].items[1].product = "L1"
    /\ orders[o].subOrders[1].items[1].priceAtOrder = ListingPrice["L1"]
    /\ listings["L1"].price # ListingPrice["L1"]
    /\ orders[o].subOrders[1].status = "delivered"
    /\ orders[o].lastUpdatedBy = "F1"
    /\ \E u \in Updaters : upc[u] = "done" /\ uresp[u].code = 200

\* ------------------------------------------------------- checkout claims
\* C21 -- Seller ownership: in every persisted order the seller of each
\* sub-order is the owner (farmer) of every listing its items reference.
C21_SellerOwnsListings ==
  \A o \in Persisted :
    \A i \in 1..Len(orders[o].subOrders) :
      \A j \in 1..Len(orders[o].subOrders[i].items) :
        listings[orders[o].subOrders[i].items[j].product].farmer
          = orders[o].subOrders[i].farmer

\* ---------------------------------------------------------- read claims
\* A step in which getOrder, listOrders or getFarmerSubOrders is served.
ReadServed ==
  /\ rvars' # rvars
  /\ rcall' # NoRead
  /\ rcall'.op \in {"get", "list", "farmer"}
\* Two getOrder calls for the same order were answered one after the
\* other, both with the order.
ReadTwice ==
  /\ rprev.call # NoRead /\ rcall # NoRead
  /\ rprev.call.op = "get" /\ rcall.op = "get"
  /\ rprev.call.id = rcall.id
  /\ rprev.reply.code = 200 /\ rresp.code = 200
\* What the claim compares of an order in a response.
StatusView(doc) ==
  [status |-> doc.status,
   grandTotal |-> doc.grandTotal,
   subOrders |-> [i \in 1..Len(doc.subOrders) |->
                    [status |-> doc.subOrders[i].status,
                     subtotal |-> doc.subOrders[i].subtotal,
                     items |-> [j \in 1..Len(doc.subOrders[i].items) |->
                                  doc.subOrders[i].items[j].itemStatus]]]]

\* C22 -- Reads do not mutate: a step that serves getOrder, listOrders or
\* getFarmerSubOrders leaves every order and every listing unchanged, and
\* two getOrder calls for the same order with nothing in between answer
\* with the same order status, sub-order statuses, item statuses,
\* subtotals and grandTotal.
C22_ReadsDoNotMutate ==
  [][/\ ReadServed => (orders' = orders /\ listings' = listings)
     /\ ReadTwice' => StatusView(rprev'.reply.body[1]) = StatusView(rresp'.body[1])]_vars
C22_Witness ==
  /\ ReadTwice
  /\ rprev.call.user # rcall.user
  /\ Len(rresp.body[1].subOrders) = 2
  /\ rresp.body[1].subOrders[1].status = "delivered"

\* ---------------------------------------------------- derivation claims
\* C23 -- The hook agrees with the controller: for every non-empty list of
\* sub-order statuses, updateDerivedStatus and deriveOrderStatus give the
\* same order status.
C23_HookAgrees ==
  (dcall.fn = "updateDerivedStatus" /\ dcall.input # <<>>) => dres[1] = dres[2]

\* ------------------------------------------------- interleaving claims
\* C24 -- Order status under interleaving: once two updateSubOrderStatus
\* calls on different sub-orders of one order have both saved, whatever the
\* order of their loads and saves, the persisted order status is the status
\* derived from the persisted sub-order statuses (as deriveOrderStatus
\* derives it or, where the two differ, as the pre-save hook does).
C24_StatusAfterInterleaving ==
  \A u \in Updaters : \A v \in Updaters \ {u} :
    (/\ upc[u] = "respond" /\ upc[v] = "respond"
     /\ ucall[u].kind = "sub" /\ ucall[v].kind = "sub"
     /\ ucall[u].orderId = ucall[v].orderId
     /\ ucall[u].subOrderId # ucall[v].subOrderId)
    => orders[ucall[u].orderId].status
         \in {deriveOrderStatus(orders[ucall[u].orderId].subOrders),
              updateDerivedStatus(orders[ucall[u].orderId].subOrders)}

\* --------------------------------------------------------- event claims
\* The events a committed checkout is to emit: one to the buyer, one per
\* sub-order to its seller.
CreatedFor(p) ==
  <<[name |-> "order:created", room |-> <<"buyer", ClientUser[p]>>, order |-> p,
     subOrder |-> NoId]>>
  \o [i \in 1..Len(orders[p].subOrders) |->
       [name |-> "suborder:created", room |-> <<"farmer", orders[p].subOrders[i].farmer>>,
        order |-> p, subOrder |-> i]]
\* The events a step has added to the log.
Emitted == SubSeq(events', Len(events) + 1, Len(events'))
EmitsNothing == events' = events

\* C25 -- Event ordering: createOrder emits only once its transaction has
\* committed, a createOrder that fails emits nothing, one that succeeds
\* emits (when the socket server is there) one order-created event to the
\* buyer and one suborder-created event per sub-order to its seller, and a
\* status update emits its events only after its save.
C25_EventOrdering ==
  [][/\ \A p \in Clients :
          (cpc[p] # "done" /\ cpc'[p] = "done")
          => IF cpc[p] = "respond" /\ io
             THEN /\ orders[p].exists /\ cresp'[p].code = 201
                  /\ events' = events \o CreatedFor(p)
             ELSE EmitsNothing
     /\ \A u \in Updaters :
          (upc[u] # "done" /\ upc'[u] = "done")
          => IF upc[u] = "respond" /\ io
             THEN /\ orders[ucall[u].orderId].lastUpdatedBy = ucall[u].user.sub
                  /\ Len(Emitted) >= 2
                  /\ \A i \in 1..Len(Emitted) :
                       /\ Emitted[i].name \in {"order:update", "suborder:update"}
                       /\ Emitted[i].order = ucall[u].orderId
             ELSE EmitsNothing
     /\ ~EmitsNothing
        => \/ \E p \in Clients : cpc[p] = "respond" /\ cpc'[p] = "done"
           \/ \E u \in Updaters : upc[u] = "respond" /\ upc'[u] = "done"]_vars

\* A checkout of two sub-orders has emitted its three events, and a status
\* update on the first sub-order has then emitted its two.
C25_Witness ==
  /\ Len(events) = 5
  /\ events[1].name = "order:created" /\ events[1].room = <<"buyer", "B1">>
  /\ events[2].room = <<"farmer", "F1">> /\ events[3].room = <<"farmer", "F2">>
  /\ events[4].name = "order:update"
  /\ events[5].name = "suborder:update" /\ events[5].room = <<"farmer", "F1">>
  /\ \E u \in Updaters : upc[u] = "done" /\ uresp[u].code = 200

\* -------------------------------------------------- first-failure claims
\* Whether place <<i, j>> of a body comes before place <<a, b>>.
ComesBefore(i, j, a, b) == i < a \/ (i = a /\ j < b)
\* The part of p's body before the item the loop is at.
EarlierWork(p) ==
  [i \in 1..cso[p] |->
     IF i < cso[p] THEN cwork[p][i]
     ELSE [cwork[p][i] EXCEPT !.items = SubSeq(@, 1, cit[p] - 1)]]
\* p's call stops at an item in this step: listing missing, or too little
\* stock.
StopsAtItem(p) ==
  /\ cpc[p] = "read" /\ cpc'[p] = "done"
  /\ cresp'[p].kind \in {"NotFound", "InsufficientStock"}

\* C26 -- First failure wins: createOrder examines the items sub-order by
\* sub-order and item by item and stops at the first one that fails; a
\* missing listing gives the not-found error, a qty above the listing's
\* quantity gives InsufficientStock with `available` the quantity read in
\* this checkout and `requested` the item's qty; no later item's listing is
\* read or decremented.
C26_FirstFailureWins ==
  [][\A p \in Clients :
       StopsAtItem(p) =>
         LET it == cwork[p][cso[p]].items[cit[p]]
             isRead(i, j) == cwork[p][i].items[j].priceAtOrder # NoNum
         IN
         /\ cresp'[p].at = <<cso[p], cit[p]>>
         /\ \A i \in 1..Len(cwork[p]) : \A j \in 1..Len(cwork[p][i].items) :
              isRead(i, j) <=> ComesBefore(i, j, cso[p], cit[p])
         /\ cresp'[p].kind = "NotFound" <=> it.product \notin ListingIds
         /\ cresp'[p].kind = "InsufficientStock" =>
              /\ cresp'[p].available
                   = SnapOf(p)[it.product].quantity - QtyOf(EarlierWork(p), it.product)
              /\ cresp'[p].requested = it.qty
              /\ it.qty > cresp'[p].available
         /\ \A l \in ListingIds :
              ctxn[p].writes[l] # NoWrite => QtyOf(EarlierWork(p), l) > 0
         /\ listings' = listings /\ orders' = orders]_vars

\* A checkout stopped at its second item, which asked for one more unit of
\* the listing its first item had taken the last unit of; the listing is as
\* it was and no order was written.
C26_Witness ==
  \E p \in Clients :
    /\ Failed(p) /\ cresp[p].kind = "InsufficientStock"
    /\ cresp[p].at = <<1, 2>>
    /\ cresp[p].available = 0 /\ cresp[p].requested = 1
    /\ listings["L1"].quantity = 1 /\ stock0["L1"] = 1
    /\ ~orders[p].exists

\* ---------------------------------------------------- validation claims
\* A status-update request whose status value is malformed.
MalformedStatus(call) ==
  \/ call.kind = "item" /\ call.itemStatus \notin ALLOWED_ITEM_STATUSES
  \/ /\ call.kind = "sub"
     /\ \/ call.status = Absent
        \/ call.status \notin SubOrderStatusEnum
        \/ call.setItemsTo # Absent /\ call.setItemsTo \notin ALLOWED_ITEM_STATUSES
\* The request names an existing sub-order and comes from its seller or an
\* admin.
OnOwnSubOrder(call) ==
  LET order == orders[call.orderId]
      si == FindById(order.subOrders, call.subOrderId)
  IN /\ order.exists /\ si # 0
     /\ call.user.isAdmin \/ order.subOrders[si].farmer = call.user.sub

\* C27 -- Malformed status values are rejected: an updateOrderItemStatus
\* with an itemStatus outside the seven item statuses, and an
\* updateSubOrderStatus with no status, with a status outside the sub-order
\* enum or with a bulk item status outside the allowed ones, sent by the
\* sub-order's seller or an admin, is answered 400 ValidationError and leaves
\* the orders unchanged.
C27_MalformedStatusRejected ==
  [][\A u \in Updaters :
       /\ (upc[u] = "idle" /\ upc'[u] = "done" /\ uresp'[u].code # 400)
          => ~\E call \in StatusCalls :
                /\ MalformedStatus(call) /\ OnOwnSubOrder(call)
                /\ UpdateOrderItemStatus(u, call) \/ UpdateSubOrderStatus(u, call)
       /\ (upc[u] = "save" /\ upc'[u] # "save"
           /\ MalformedStatus(ucall[u]) /\ OnOwnSubOrder(ucall[u]))
          => /\ upc'[u] = "done"
             /\ uresp'[u].code = 400 /\ uresp'[u].kind = "ValidationError"
             /\ orders' = orders]_vars

\* -------------------------------------------------------- shape claims
\* C28 -- One sub-order per seller: every persisted order has at least one
\* sub-order, every sub-order at least one item, and no two sub-orders of
\* an order have the same seller.
C28_OneSubOrderPerSeller ==
  \A o \in Persisted :
    LET subs == orders[o].subOrders IN
    /\ Len(subs) >= 1
    /\ \A i \in 1..Len(subs) : Len(subs[i].items) >= 1
    /\ \A i \in 1..Len(subs) : \A j \in 1..Len(subs) :
         i # j => subs[i].farmer # subs[j].farmer

\* --------------------------------------------------------- enum claims
\* What deriveSubOrderStatus may return.
DerivedSubOrderStatuses ==
  {"pending", "delivered", "cancelled", "in_progress", "partially_delivered"}

\* C29 -- Derived statuses stay inside the enums: whatever createOrder and
\* the status updates have done, every persisted order status is in the
\* order enum and every persisted sub-order status in the sub-order enum;
\* deriveSubOrderStatus of the persisted items is one of pending, delivered,
\* cancelled, in_progress, partially_delivered, and deriveOrderStatus and
\* updateDerivedStatus of the sub-orders, persisted or about to be saved, are
\* in the order enum.
C29_StatusesInEnums ==
  /\ \A o \in Persisted :
       LET subs == orders[o].subOrders IN
       /\ orders[o].status \in OrderStatusEnum
       /\ deriveOrderStatus(subs) \in OrderStatusEnum
       /\ updateDerivedStatus(subs) \in OrderStatusEnum
       /\ \A i \in 1..Len(subs) :
            /\ subs[i].status \in SubOrderStatusEnum
            /\ deriveSubOrderStatus(subs[i].items) \in DerivedSubOrderStatuses
  /\ \A u \in Updaters :
       (upc[u] = "save" /\ ucall[u].kind \in {"item", "sub"})
       => /\ udoc[u].status \in OrderStatusEnum
          /\ updateDerivedStatus(udoc[u].subOrders) \in OrderStatusEnum

\* One update has put 'rejected' on a sub-order; another, asking for a
\* status outside the enum, was refused by the save.
C29_Witness ==
  /\ orders["c1"].exists
  /\ orders["c1"].subOrders[1].status = "rejected"
  /\ \E u \in Updaters : \E v \in Updaters \ {u} :
       /\ upc[u] = "done" /\ ucall[u].kind = "sub" /\ uresp[u].code = 200
       /\ upc[v] = "done" /\ ucall[v].kind = "sub" /\ uresp[v].code = 500

\* ------------------------------------------------------- restock claims
\* A step of a status-update handler or of deleteOrder.
UpdateStep == \E u \in Updaters : upc'[u] # upc[u]
DeleteStep == rcall = NoRead /\ rcall' # NoRead /\ rcall'.op = "delete"

\* C30 -- No restocking: no step of updateOrderStatus,
\* updateOrderItemStatus, updateSubOrderStatus or deleteOrder changes a
\* listing's quantity, cancellations, rejections and deletions included;
\* under the order calls a listing's quantity never goes up, and goes down
\* only when a createOrder commits.
C30_NoRestocking ==
  [][/\ (UpdateStep \/ DeleteStep) => listings' = listings
     /\ \A l \in ListingIds :
          /\ listings'[l].quantity <= listings[l].quantity
          /\ listings'[l].quantity < listings[l].quantity
             => \E p \in Clients : CommitsNow(p) /\ cdoc[p].exists
                                     /\ QtyOf(cdoc[p].subOrders, l) > 0]_vars

\* An order of two units was cancelled by its seller and then deleted by an
\* admin; the listing is still two units short.
C30_Witness ==
  /\ rcall # NoRead /\ rcall.op = "delete" /\ rresp.code = 204
  /\ upc["u1"] = "done" /\ uresp["u1"].code = 200
  /\ Persisted = {}
  /\ listings["L1"].quantity = stock0["L1"] - 2

====
